---- MODULE Spec2Model ----
(***************************************************************************)
(* The HelloWorld menu plugin of 03_doing_stuff.py: a five-entry option    *)
(* list with a wrapping cursor, an action table dispatched by right(), a   *)
(* three-row redraw, a handler that sleeps on the callback path and a      *)
(* handler that starts a detached background thread.                       *)
(*                                                                         *)
(* Three kinds of control run side by side: the main loop (redraw, sleep), *)
(* the joystick callback path (up, down, right) and the daemon threads     *)
(* started by handle_pirate.                                               *)
(***************************************************************************)
EXTENDS Integers, Sequences, FiniteSets, Bags

VARIABLES
  selected_option,   \* self.selected_option, a Python int (0-based)
  options,           \* self.options
  actions,           \* self.actions, the handlers by name
  stdout,            \* the most recent line written by print (<<>>: none yet)
  threads,           \* bag of the daemon threads started so far
  cbpc,              \* where the joystick callback path is
  display,           \* the write_option calls of the most recent redraw
  lastCall,          \* history: the most recent callback and the cursor it found
  invoked,           \* history: the handler bodies run by the most recent callback
  runStart,          \* history: cursor at the start of the current run of down()
  downs,             \* history: length of the current run of down()
  pirateSelections,  \* history: right() calls made with the Pirate label current
  drawnAt            \* history: cursor read by the most recent redraw

vars == <<selected_option, options, actions, stdout, threads, cbpc, display,
          lastCall, invoked, runStart, downs, pirateSelections, drawnAt>>

\* Number of background threads the model lets handle_pirate start.
MaxThreads == 2

(***************************************************************************)
(* Python primitives                                                       *)
(***************************************************************************)

\* a % b of Python for b > 0: the result lies in 0 .. b-1 also for a < 0.
PyMod(a, b) == a % b

\* list[i] of Python: 0-based, a negative i counts from the end.
PyIndex(list, i) ==
  IF 0 <= i /\ i < Len(list) THEN list[i + 1]
  ELSE IF i < 0 /\ -i <= Len(list) THEN list[Len(list) + i + 1]
  ELSE "IndexError"

\* The position of the first sep in text, 0 if there is none.
RECURSIVE FindSep(_, _, _)
FindSep(text, sep, i) ==
  IF i > Len(text) THEN 0
  ELSE IF text[i] = sep THEN i
  ELSE FindSep(text, sep, i + 1)

\* text.split(sep) of Python: the pieces between the separators, empty
\* pieces included, so the list always has at least one element.
RECURSIVE Split(_, _)
Split(text, sep) ==
  LET k == FindSep(text, sep, 1) IN
  IF k = 0 THEN <<text>>
  ELSE <<SubSeq(text, 1, k - 1)>> \o Split(SubSeq(text, k + 1, Len(text)), sep)

\* print(line): the line becomes the most recent line of standard output.
Emit(line) == <<line>>

(***************************************************************************)
(* Construction                                                            *)
(***************************************************************************)

OptionList == <<"Pirate", "Monkey", "Robot", "Ninja", "Dolphin">>

\* Mutant: two entries of the table in the wrong order.
ActionTableSwapped ==
  <<"handle_pirate", "handle_monkey", "handle_ninja", "handle_robot",
    "handle_dolphin">>

ActionTable ==
  <<"handle_pirate", "handle_monkey", "handle_robot", "handle_ninja",
    "handle_dolphin">>

\* What /bin/ping google.com -c 4 can write: reply lines and a closing
\* statistics line, or nothing at all.
PingOutputs == { <<"reply", "\n", "stats", "\n">>, <<>> }

NewThread == [pc |-> "ping", result |-> <<>>]

NoCall == [op |-> "none", cursor |-> 0]

Init ==
  /\ selected_option = 0
  /\ options = OptionList
  /\ actions = ActionTable
  /\ stdout = <<>>
  /\ threads = EmptyBag
  /\ cbpc = "idle"
  /\ display = <<>>
  /\ lastCall = NoCall
  /\ invoked = <<>>
  /\ runStart = 0
  /\ downs = 0
  /\ pirateSelections = 0
  /\ drawnAt = 0

(***************************************************************************)
(* Handlers (the entries of the action table)                              *)
(***************************************************************************)

\* Mutant: the update is run on the calling path instead of in a thread.
handle_pirate_inline ==
  /\ BagCardinality(threads) < MaxThreads
  /\ stdout' = Emit(<<"Arrr! Doing pirate stuff!">>)
  /\ threads' = threads (+) SetToBag({[pc |-> "ping", result |-> <<>>]})
  /\ cbpc' = "pirate_wait"
  /\ UNCHANGED selected_option

\* Lines 72-76: print, then start a daemon thread on do_pirate_update and
\* return; the thread object is dropped, nothing joins it.
handle_pirate ==
  /\ BagCardinality(threads) < MaxThreads
  /\ stdout' = Emit(<<"Arrr! Doing pirate stuff!">>)
  /\ threads' = threads (+) SetToBag({NewThread})
  /\ UNCHANGED <<selected_option, cbpc>>

\* Mutant: the monkey handler starts a background thread as well.
handle_monkey_spawns ==
  /\ BagCardinality(threads) < MaxThreads
  /\ stdout' = Emit(<<"Eeek! Doing monkey stuff!">>)
  /\ threads' = threads (+) SetToBag({[pc |-> "ping", result |-> <<>>]})
  /\ cbpc' = "monkey_sleep"
  /\ UNCHANGED selected_option

\* Lines 89-91: print, then time.sleep(2) on the calling path. The module
\* global `time` is bound by line 171 before any callback can run.
handle_monkey ==
  /\ stdout' = Emit(<<"Eeek! Doing monkey stuff!">>)
  /\ cbpc' = "monkey_sleep"
  /\ UNCHANGED <<selected_option, threads>>

handle_robot ==
  /\ stdout' = Emit(<<"Deep! Doing robot stuff!">>)
  /\ UNCHANGED <<selected_option, threads, cbpc>>

handle_ninja ==
  /\ stdout' = Emit(<<"Hyah! Doing Ninja stuff!">>)
  /\ UNCHANGED <<selected_option, threads, cbpc>>

\* Mutant: the handler also sends the cursor back to the first option.
handle_dolphin_resets ==
  /\ stdout' = Emit(<<"Bubble bubble bubble!">>)
  /\ selected_option' = 0
  /\ UNCHANGED <<threads, cbpc>>

handle_dolphin ==
  /\ stdout' = Emit(<<"Bubble bubble bubble!">>)
  /\ UNCHANGED <<selected_option, threads, cbpc>>

\* Calling the bound method found in the action table.
Call(h) ==
  \/ h = "handle_pirate"  /\ handle_pirate  /\ invoked' = <<"handle_pirate">>
  \/ h = "handle_monkey"  /\ handle_monkey  /\ invoked' = <<"handle_monkey">>
  \/ h = "handle_robot"   /\ handle_robot   /\ invoked' = <<"handle_robot">>
  \/ h = "handle_ninja"   /\ handle_ninja   /\ invoked' = <<"handle_ninja">>
  \/ h = "handle_dolphin" /\ handle_dolphin /\ invoked' = <<"handle_dolphin">>

\* Line 107: self.actions[ self.selected_option ]()
select_option == Call(PyIndex(actions, selected_option))

(***************************************************************************)
(* Cursor arithmetic and the three labels                                  *)
(***************************************************************************)

\* Mutant: the cursor stops at the last option instead of wrapping.
next_option_clamped(c, n) == IF c + 1 >= n THEN n - 1 ELSE c + 1

next_option(c, n) == PyMod(c + 1, n)

\* Mutant: remainder that truncates toward zero, as in C: -1 % n is -1.
prev_option_truncating(c, n) == IF c - 1 < 0 THEN -((1 - c) % n) ELSE (c - 1) % n

\* Mutant: the cursor stops at the first option instead of wrapping.
prev_option_clamped(c, n) == IF c = 0 THEN 0 ELSE c - 1

prev_option(c, n) == PyMod(c - 1, n)

get_current_option == PyIndex(options, selected_option)

\* Mutant: the index of the next label is not wrapped.
get_next_option_unwrapped == PyIndex(options, selected_option + 1)

get_next_option == PyIndex(options, PyMod(selected_option + 1, Len(options)))

get_prev_option == PyIndex(options, PyMod(selected_option - 1, Len(options)))

write_option(row, margin, icon, text) ==
  [row |-> row, margin |-> margin, icon |-> icon, text |-> text]

\* The three menu.write_option calls of redraw, in program order.
redraw ==
  << write_option(0, 1, "", get_prev_option),
     write_option(1, 1, ">", get_current_option),
     write_option(2, 1, "", get_next_option) >>

(***************************************************************************)
(* The joystick callback path                                              *)
(***************************************************************************)

\* The joystick library delivers the registered callbacks one at a time on
\* its own path, beside the main loop: a callback is taken only when the
\* previous one has returned (cbpc = "idle").

\* handle_up -> menu.up() -> HelloWorld.up() -> prev_option()
Up ==
  /\ cbpc = "idle"
  /\ selected_option' = prev_option(selected_option, Len(options))
  /\ lastCall' = [op |-> "up", cursor |-> selected_option]
  /\ invoked' = <<>>
  /\ runStart' = prev_option(selected_option, Len(options))
  /\ downs' = 0
  /\ UNCHANGED <<options, actions, stdout, threads, cbpc, display,
                 pirateSelections, drawnAt>>

\* handle_down -> menu.down() -> HelloWorld.down() -> next_option()
\* A run of Len(options) consecutive down() calls is complete; the next
\* down() starts a new run.
Down ==
  /\ cbpc = "idle"
  /\ selected_option' = next_option(selected_option, Len(options))
  /\ lastCall' = [op |-> "down", cursor |-> selected_option]
  /\ invoked' = <<>>
  /\ IF downs < Len(options)
       THEN runStart' = runStart /\ downs' = downs + 1
       ELSE runStart' = selected_option /\ downs' = 1
  /\ UNCHANGED <<options, actions, stdout, threads, cbpc, display,
                 pirateSelections, drawnAt>>

\* handle_right -> menu.right() -> HelloWorld.right() -> select_option()
Right ==
  /\ cbpc = "idle"
  /\ select_option
  /\ lastCall' = [op |-> "right", cursor |-> selected_option]
  /\ pirateSelections' =
       IF PyIndex(options, selected_option) = "Pirate"
         THEN pirateSelections + 1 ELSE pirateSelections
  /\ UNCHANGED <<options, actions, display, runStart, downs, drawnAt>>

\* Lines 91-92: time.sleep(2) returns, handle_monkey prints and returns.
MonkeyWake ==
  /\ cbpc = "monkey_sleep"
  /\ cbpc' = "idle"
  /\ stdout' = Emit(<<"Done monkey stuff!">>)
  /\ UNCHANGED <<selected_option, options, actions, threads, display,
                 lastCall, invoked, runStart, downs, pirateSelections, drawnAt>>

(***************************************************************************)
(* The main loop: while 1: menu.redraw(); time.sleep(0.01)                 *)
(***************************************************************************)

Redraw ==
  /\ display' = redraw
  /\ drawnAt' = selected_option
  /\ UNCHANGED <<selected_option, options, actions, stdout, threads, cbpc,
                 lastCall, invoked, runStart, downs, pirateSelections>>

(***************************************************************************)
(* do_pirate_update, run by each daemon thread                             *)
(***************************************************************************)

Replace(t, u) == (threads (-) SetToBag({t})) (+) SetToBag({u})

ThreadFrame ==
  UNCHANGED <<selected_option, options, actions, cbpc, display, lastCall,
              invoked, runStart, downs, pirateSelections, drawnAt>>

\* result[len(result)-2] of line 86
LastLine(lines) == PyIndex(lines, Len(lines) - 2)

\* Lines 84-86: check_output returns the text ping wrote; the thread splits
\* it on "\n" and keeps the element before the last one. The split and the
\* indexing read and write the local `result` only, so they are taken in
\* one step with the return of check_output.
PirateCheckOutput ==
  \E t \in BagToSet(threads), out \in PingOutputs :
    /\ t.pc = "ping"
    /\ threads' = Replace(t, [pc |-> "print",
                              result |-> LastLine(Split(out, "\n"))])
    /\ UNCHANGED stdout
    /\ ThreadFrame

\* Mutant: the failure is caught and reported on standard output.
PirateCheckOutputRaisesLogged ==
  \E t \in BagToSet(threads) :
    /\ t.pc = "ping"
    /\ threads' = Replace(t, [pc |-> "failed", result |-> <<"CalledProcessError">>])
    /\ stdout' = Emit(<<"ping failed">>)
    /\ ThreadFrame

\* Line 84: check_output raises (CalledProcessError on a non-zero exit
\* status, OSError when /bin/ping cannot be run); nothing catches it and
\* the thread ends.
PirateCheckOutputRaises ==
  \E t \in BagToSet(threads) :
    /\ t.pc = "ping"
    /\ threads' = Replace(t, [pc |-> "failed", result |-> <<"CalledProcessError">>])
    /\ UNCHANGED stdout
    /\ ThreadFrame

\* Lines 84-85 under a Python 3 interpreter: check_output returns bytes and
\* bytes.split(str) raises TypeError; the thread ends.
PirateParseRaises ==
  \E t \in BagToSet(threads) :
    /\ t.pc = "ping"
    /\ threads' = Replace(t, [pc |-> "failed", result |-> <<"TypeError">>])
    /\ UNCHANGED stdout
    /\ ThreadFrame

\* Line 87: print(result), and the thread ends.
PiratePrint ==
  \E t \in BagToSet(threads) :
    /\ t.pc = "print"
    /\ threads' = Replace(t, [pc |-> "done", result |-> <<>>])
    /\ stdout' = Emit(t.result)
    /\ ThreadFrame

Next ==
  \/ Up
  \/ Down
  \/ Right
  \/ MonkeyWake
  \/ Redraw
  \/ PirateCheckOutput
  \/ PirateCheckOutputRaises
  \/ PirateParseRaises
  \/ PiratePrint

Spec == Init /\ [][Next]_vars

\* The main loop is never blocked by the other paths, and sleep(2) returns.
\* Nothing is assumed about the background threads: ping may take forever.
FairSpec == Spec /\ WF_vars(Redraw) /\ WF_vars(MonkeyWake)

(***************************************************************************)
(* Properties                                                              *)
(***************************************************************************)

N == Len(options)

\* The threads of bag b whose pc is in S.
CountIn(b, S) ==
  BagCardinality([t \in {u \in BagToSet(b) : u.pc \in S} |-> b[t]])

Live == {"ping", "print"}

Running == CountIn(threads, Live) > 0

\* C1: in every reachable state the cursor is an integer with
\* 0 <= selected_option < len(options).
C1_CursorInRange ==
  /\ selected_option \in Int
  /\ 0 <= selected_option
  /\ selected_option < Len(options)

\* up() has wrapped from 0 while a background thread is running and the
\* display has been drawn.
C1_Witness ==
  /\ lastCall = [op |-> "up", cursor |-> 0]
  /\ selected_option = Len(options) - 1
  /\ Running
  /\ display # <<>>

\* C2: after exactly len(options) calls of down() in a row, with no up() in
\* between, the cursor is back where the run started.
C2_DownNTimesReturns ==
  downs = Len(options) => selected_option = runStart

\* A full run of down() that started in the middle of the list and wrapped.
C2_Witness ==
  /\ downs = Len(options)
  /\ runStart = 3
  /\ lastCall.op = "down"

\* The handler the claim assigns to each label.
HandlerFor(label) ==
  CASE label = "Pirate"  -> "handle_pirate"
    [] label = "Monkey"  -> "handle_monkey"
    [] label = "Robot"   -> "handle_robot"
    [] label = "Ninja"   -> "handle_ninja"
    [] label = "Dolphin" -> "handle_dolphin"
    [] OTHER             -> "none"

\* C3: the action table has the length and the order of the option list,
\* and right() with the cursor at i runs exactly one handler, the one of
\* the label options[i].
C3_SelectInvokesActionI ==
  /\ Len(actions) = Len(options)
  /\ \A i \in 1..Len(options) : actions[i] = HandlerFor(options[i])
  /\ lastCall.op = "right" =>
       /\ lastCall.cursor \in 0..(Len(options) - 1)
       /\ invoked = <<HandlerFor(options[lastCall.cursor + 1])>>

\* right() has just run the Ninja handler from cursor 3.
C3_Witness ==
  /\ lastCall = [op |-> "right", cursor |-> 3]
  /\ invoked = <<"handle_ninja">>
  /\ stdout = <<<<"Hyah! Doing Ninja stuff!">>>>

\* The three rows the claim expects of a redraw with the cursor at c.
C4_Rows(c) ==
  LET prev == IF c = 0 THEN N - 1 ELSE c - 1
      next == IF c = N - 1 THEN 0 ELSE c + 1
  IN << [row |-> 0, margin |-> 1, icon |-> "",  text |-> options[prev + 1]],
        [row |-> 1, margin |-> 1, icon |-> ">", text |-> options[c + 1]],
        [row |-> 2, margin |-> 1, icon |-> "",  text |-> options[next + 1]] >>

\* C4: a redraw with the cursor at c issues exactly three write_option
\* calls: row 0 with the previous label, row 1 with the current label and
\* the marker '>', row 2 with the next label, the neighbours wrapping.
C4_RedrawThreeRows ==
  display # <<>> =>
    /\ Len(display) = 3
    /\ display = C4_Rows(drawnAt)
    /\ {i \in 1..3 : display[i].icon = ">"} = {2}

\* A redraw with the cursor on the last option: the next row wraps.
C4_Witness ==
  /\ display # <<>>
  /\ drawnAt = Len(options) - 1
  /\ display[2].text = "Dolphin"
  /\ display[3].text = "Pirate"

\* C5: right() on Pirate starts the background thread and leaves the
\* callback path free; while a background thread is running, however long,
\* a stale display is always redrawn and a busy callback path becomes free
\* again, so that further events are taken.
C5_PirateDoesNotBlock ==
  /\ [](lastCall = [op |-> "right", cursor |-> 0] =>
          /\ cbpc = "idle"
          /\ invoked = <<"handle_pirate">>
          /\ BagCardinality(threads) >= 1)
  /\ (Running /\ display # redraw) ~> (display = redraw)
  /\ (Running /\ cbpc # "idle") ~> (cbpc = "idle")

\* Pirate was selected, then down() was taken and drawn, all with the
\* thread still waiting for ping.
C5_Witness ==
  /\ pirateSelections = 1
  /\ threads = SetToBag({NewThread})
  /\ lastCall = [op |-> "down", cursor |-> 0]
  /\ drawnAt = 1
  /\ display = redraw
  /\ cbpc = "idle"

\* C6: right() at any cursor returns without waiting or sleeping: the
\* callback path is never held by a handler.
C6_NoHandlerBlocks ==
  lastCall.op = "right" => cbpc = "idle"

\* C7: one down() moves the cursor from c to c+1, or to 0 from the last
\* option; one up() moves it to c-1, or to the last option from 0; the
\* result is never negative. From Pirate, down() gives Monkey and up()
\* gives Dolphin.
C7_SingleStep ==
  /\ selected_option >= 0
  /\ lastCall.op = "down" =>
       selected_option = IF lastCall.cursor = N - 1 THEN 0 ELSE lastCall.cursor + 1
  /\ lastCall.op = "up" =>
       selected_option = IF lastCall.cursor = 0 THEN N - 1 ELSE lastCall.cursor - 1
  /\ lastCall = [op |-> "down", cursor |-> 0] =>
       selected_option = 1 /\ get_current_option = "Monkey"
  /\ lastCall = [op |-> "up", cursor |-> 0] =>
       selected_option = 4 /\ get_current_option = "Dolphin"

\* up() from Pirate has landed on Dolphin.
C7_Witness ==
  /\ lastCall = [op |-> "up", cursor |-> 0]
  /\ get_current_option = "Dolphin"
  /\ downs = 0

C9_OneThreadPerPirate ==
  BagCardinality(threads) = pirateSelections

\* Two background threads in flight at once, after other options were
\* selected as well.
C9_Witness ==
  /\ CopiesIn(NewThread, threads) = 2
  /\ pirateSelections = 2
  /\ lastCall.op = "right"
  /\ lastCall.cursor # 0

\* C10: every step that changes the cursor is an up() or a down(), and no
\* step changes options or actions.
C10_OnlyUpDownMoveCursor ==
  [][/\ selected_option' # selected_option => Up \/ Down
     /\ options' = options
     /\ actions' = actions]_vars

\* The cursor sits where down() put it after a selection, a finished
\* background thread and a redraw.
C10_Witness ==
  /\ selected_option = 2
  /\ lastCall = [op |-> "right", cursor |-> 2]
  /\ CountIn(threads, {"done"}) > 0
  /\ drawnAt = 2
  /\ display # <<>>

====
